---- MODULE Spec2Model ----
(***************************************************************************)
(* ShortLink: a URL shortener (FastAPI + SQLAlchemy AsyncSession).         *)
(*                                                                         *)
(* The store is the relational database behind app.database: two tables,   *)
(* users and shortened_links (app/models.py).  Every request handler of    *)
(* app/main.py is a coroutine with its own session; it is cut into steps   *)
(* at its awaits on the database: a SELECT is one step together with the   *)
(* Python code that follows it up to the next await, and db.commit() is    *)
(* one step that flushes the pending INSERT / UPDATE / DELETE.  Statements *)
(* of different requests interleave freely between steps (read committed). *)
(* An exception that no handler catches is the response 500.  The users    *)
(* table is the one the authentication routes (/register, /login) have     *)
(* filled; primary keys are never reused.  Time is counted in whole days.  *)
(***************************************************************************)
EXTENDS Integers, FiniteSets, Sequences, TLC

\* ---------------------------------------------------------------- bounds
\* the requests a behaviour receives
MaxReqs == 3

\* ------------------------------------------------------ program constants
INACTIVITY_DAYS_LIMIT == 7

\* ------------------------------------------------------------ input sets
Procs == {1, 2}
\* table users, as registered through /register; /login issues Token(id)
Users == {[id |-> 1, email |-> "A"], [id |-> 2, email |-> "B"]}
Urls == {"u1", "u2"}
ShortenUrls == {"u1"}
\* the days on which something happens
Days == {0, 8}

\* An Optional[...] value / a nullable column: None is the empty set.
None == {}
Some(x) == {x}

\* Optional[str] custom_alias of ShortenLinkRequest
Aliases == {None, Some(""), Some("abcdef")}
\* what random.choices can return (one of the 62^6 codes)
GeneratedCodes == {"Zq3xY9"}
\* Optional[datetime] expires_at of ShortenLinkRequest
Expiries == {None, Some(0)}
\* the code that visitors and owners ask for
PathCodes == {"abcdef"}

VARIABLES
    links,      \* table shortened_links: set of rows
    nextId,     \* next primary key of shortened_links
    now,        \* datetime.utcnow(), in days
    reqs,       \* per worker: the request it is handling, with the handler's locals
    sweeper,    \* the task created at startup: "sleeping" | "failed"
    out,        \* the response sent by the last step, NoEvent when it sent none
    served,     \* history: per link id, the redirects answered so far
    nreq        \* history: requests received so far

vars == <<links, nextId, now, reqs, sweeper, out, served, nreq>>

\* ----------------------------------------------------------- credentials
\* The Authorization header of a request: absent, a bearer token that
\* decode_access_token rejects, or a token issued by login for user `sub`.
NoHeader == [kind |-> "none", sub |-> 0]
BadToken == [kind |-> "invalid", sub |-> 0]
Token(uid) == [kind |-> "token", sub |-> uid]
Credentials == {NoHeader, BadToken} \cup {Token(u.id) : u \in Users}
\* the credentials shorten requests carry: anonymous, or user 1
Creators == {NoHeader, Token(1)}

\* ------------------------------------------------------------- responses
Response(status, detail, body) == [status |-> status, detail |-> detail, body |-> body]
NoResponse == Response(0, "", <<>>)
ServerError == Response(500, "Internal Server Error", <<>>)

\* A worker's request: the route (op), the await it is suspended at (pc), its
\* inputs (cred, code, alias, url, exp) and the handler's locals: the primary
\* key of the link it loaded (id), the values it assigned (n, t, url) and
\* whether the session holds a change to flush (dirty).  rival / rivalStatus
\* are history: a shorten request with the same alias was in flight together
\* with this one, and the status it was answered with (0: not yet).
Idle ==
    [op |-> "idle", pc |-> "idle", cred |-> NoHeader, code |-> "", alias |-> None,
     url |-> "", exp |-> None, id |-> 0, n |-> 0, t |-> 0, dirty |-> FALSE,
     rival |-> FALSE, rivalStatus |-> 0]

\* what a client sees of a finished request, with the request it answers
Event(r, resp) ==
    [op |-> r.op, pc |-> r.pc, cred |-> r.cred, code |-> r.code,
     alias |-> r.alias, id |-> r.id, rival |-> r.rival,
     rivalStatus |-> r.rivalStatus, resp |-> resp]
NoEvent == Event(Idle, NoResponse)
\* a turn of the sweeper's loop has run (it answers nobody)
SweepEvent == Event([Idle EXCEPT !.op = "sweep"], NoResponse)

\* ------------------------------------------------------------- the store
\* select(ShortenedLink).where(ShortenedLink.short_code == code): the rows matched
LinksByCode(L, code) == {l \in L : l.short_code = code}
LinksById(L, id) == {l \in L : l.id = id}
UsersById(U, id) == {u \in U : u.id = id}
\* result.scalar_one_or_none() of a non-empty result
TheLink(rows) == CHOOSE l \in rows : TRUE

Init ==
    /\ links = {}
    /\ nextId = 1
    /\ now = 0
    /\ reqs = [p \in Procs |-> Idle]
    /\ sweeper = "sleeping"
    /\ out = NoEvent
    /\ served = [i \in 1..MaxReqs |-> 0]
    /\ nreq = 0

\* ------------------------------------------------------------ principals
\* get_current_user: Depends(security) with HTTPBearer(auto_error=False) hands
\* over None when the header is absent, and `credentials.credentials` then
\* raises AttributeError (an unhandled exception: 500).
get_current_user(cred) ==
    IF cred.kind = "none"
    THEN [err |-> ServerError, uid |-> None]
    ELSE IF cred.kind = "invalid"
    THEN [err |-> Response(401, "Invalid token", <<>>), uid |-> None]
    ELSE IF UsersById(Users, cred.sub) = {}
    THEN [err |-> Response(401, "User not found", <<>>), uid |-> None]
    ELSE [err |-> NoResponse, uid |-> Some(cred.sub)]

\* get_current_user_optional: every failure is None (anonymous)
get_current_user_optional(cred) ==
    IF cred.kind = "none" THEN None
    ELSE IF cred.kind = "invalid" THEN None
    ELSE {u.id : u \in UsersById(Users, cred.sub)}

\* current_user.email if current_user else "anonymous"
created_by(cred) ==
    LET cu == get_current_user_optional(cred)
    IN IF cu = None THEN "anonymous"
       ELSE (CHOOSE u \in Users : u.id \in cu).email

\* ------------------------------------------------------ request plumbing
Free(p) == reqs[p].op = "idle"

\* a request arrives and is handled by the lowest free worker
Arrive(p) ==
    /\ Free(p) /\ \A q \in Procs : q < p => ~Free(q)
    /\ nreq < MaxReqs /\ nreq' = nreq + 1

Begin(op, cred, code) == [Idle EXCEPT !.op = op, !.cred = cred, !.code = code]

InFlight(q, op, pcs) == reqs[q].op = op /\ reqs[q].pc \in pcs

\* worker p sends `resp` for request r and is free again
Respond(p, r, resp) ==
    /\ reqs' = [q \in Procs |->
                  IF q = p THEN Idle
                  ELSE IF r.rival /\ reqs[q].rival
                  THEN [reqs[q] EXCEPT !.rivalStatus = resp.status]
                  ELSE reqs[q]]
    /\ out' = Event(r, resp)

\* ---------------------------------------------------------------- shorten
\* short_code = request_data.custom_alias or generate_short_code()
short_code_of(alias, generated) ==
    IF alias = None \/ alias = Some("") THEN generated
    ELSE CHOOSE c \in alias : TRUE

\* q is handling a shorten request that names the same non-empty alias as r
Rivals(r, q) ==
    /\ InFlight(q, "shorten", {"commit", "refresh"})
    /\ r.alias \notin {None, Some("")}
    /\ reqs[q].alias = r.alias
    /\ ~reqs[q].rival

shorten_link_check(p, cred, alias, url, exp, generated) ==
    /\ Arrive(p)
    /\ LET r == [Begin("shorten", cred, short_code_of(alias, generated))
                   EXCEPT !.alias = alias, !.url = url, !.exp = exp]
           rv == {q \in Procs \ {p} : Rivals(r, q)}
           me == [r EXCEPT !.rival = (rv # {})]
           marked == [q \in Procs |->
                        IF q \in rv THEN [reqs[q] EXCEPT !.rival = TRUE] ELSE reqs[q]]
       IN IF LinksByCode(links, me.code) # {}
          THEN /\ reqs' = [q \in Procs |->
                             IF q \in rv THEN [marked[q] EXCEPT !.rivalStatus = 400]
                             ELSE marked[q]]
               /\ out' = Event(me, Response(400, "Alias is already taken", <<>>))
          ELSE /\ reqs' = [marked EXCEPT ![p] = [me EXCEPT !.pc = "commit"]]
               /\ out' = NoEvent
    /\ UNCHANGED <<links, nextId, now, sweeper, served>>

\* a row inserted without its creator
new_link_anonymous(r, id) ==
    [id |-> id, original_url |-> r.url, short_code |-> r.code, created_at |-> now,
     expires_at |-> r.exp, click_count |-> 0, last_used_at |-> None,
     user_id |-> None]

\* the row db.add(new_link) inserts at commit
new_link(r, id) ==
    [id |-> id, original_url |-> r.url, short_code |-> r.code, created_at |-> now,
     expires_at |-> r.exp, click_count |-> 0, last_used_at |-> None,
     user_id |-> get_current_user_optional(r.cred)]

\* a table without the unique constraint
unique_violation_dropped(L, code) == FALSE

\* UNIQUE (short_code): the INSERT fails when a row holds the code
unique_violation(L, code) == LinksByCode(L, code) # {}

shorten_link_commit(p) ==
    /\ InFlight(p, "shorten", {"commit"})
    /\ IF unique_violation(links, reqs[p].code)
       THEN /\ Respond(p, reqs[p], ServerError)          \* IntegrityError, unhandled
            /\ UNCHANGED <<links, nextId>>
       ELSE /\ links' = links \cup {new_link(reqs[p], nextId)}
            /\ nextId' = nextId + 1
            /\ reqs' = [reqs EXCEPT ![p].pc = "refresh", ![p].id = nextId]
            /\ out' = NoEvent
    /\ UNCHANGED <<now, sweeper, served, nreq>>

shorten_link_refresh(p) ==
    /\ InFlight(p, "shorten", {"refresh"})
    /\ LET r == reqs[p]
       IN IF LinksById(links, r.id) = {}
          THEN Respond(p, r, ServerError)         \* InvalidRequestError, unhandled
          ELSE Respond(p, r, Response(200, "", <<r.code, created_by(r.cred)>>))
    /\ UNCHANGED <<links, nextId, now, sweeper, served, nreq>>

\* --------------------------------------------------------------- redirect
\* the comparison the wrong way round
expired_reversed(l, t) == \E e \in l.expires_at : e > t

\* link.expires_at and link.expires_at < datetime.utcnow()
expired(l, t) == \E e \in l.expires_at : e < t

\* the expiry answer given without the existence check before it
redirect_response_unordered(rows, t) ==
    IF rows = {} \/ expired(TheLink(rows), t)
    THEN Response(410, "Link has expired", <<>>)
    ELSE NoResponse

\* the checks between the SELECT and the assignments, for the rows matched:
\* a response, or NoResponse when the handler goes on
redirect_response(rows, t) ==
    IF rows = {} THEN Response(404, "Short URL not found", <<>>)
    ELSE IF expired(TheLink(rows), t) THEN Response(410, "Link has expired", <<>>)
    ELSE NoResponse

redirect_to_original_url_read(p, code) ==
    /\ Arrive(p)
    /\ LET r == Begin("redirect", NoHeader, code)
           rows == LinksByCode(links, code)
           resp == redirect_response(rows, now)
           link == TheLink(rows)
       IN IF resp # NoResponse
          THEN Respond(p, r, resp)
          ELSE /\ reqs' = [reqs EXCEPT ![p] =
                             [r EXCEPT !.pc = "commit", !.id = link.id,
                                       !.n = link.click_count + 1, !.t = now,
                                       !.url = link.original_url, !.dirty = TRUE]]
               /\ out' = NoEvent
    /\ UNCHANGED <<links, nextId, now, sweeper, served>>

\* an UPDATE that also stamps created_at
visit_restamping(l, r) ==
    [l EXCEPT !.click_count = r.n, !.last_used_at = Some(r.t), !.created_at = r.t]

\* the UPDATE the session flushes for the attributes the handler assigned
visit(l, r) == [l EXCEPT !.click_count = r.n, !.last_used_at = Some(r.t)]

redirect_to_original_url_commit(p) ==
    /\ InFlight(p, "redirect", {"commit"})
    /\ LET r == reqs[p]
           rows == LinksById(links, r.id)
       IN IF rows = {}
          THEN /\ Respond(p, r, ServerError)     \* StaleDataError: 0 rows matched
               /\ UNCHANGED <<links, served>>
          ELSE /\ links' = (links \ rows) \cup {visit(l, r) : l \in rows}
               /\ served' = [served EXCEPT ![r.id] = @ + 1]
               /\ Respond(p, r, Response(307, "", <<r.url>>))
    /\ UNCHANGED <<nextId, now, sweeper, nreq>>

\* ----------------------------------------------------------------- lookup
\* a lookup that refuses an expired link as the redirect does
lookup_response_expiring(rows) ==
    IF redirect_response(rows, now) # NoResponse THEN redirect_response(rows, now)
    ELSE Response(200, "", <<TheLink(rows).original_url>>)

lookup_response(rows) ==
    IF rows = {} THEN Response(404, "Short URL not found", <<>>)
    ELSE Response(200, "", <<TheLink(rows).original_url>>)

get_original_url(p, code) ==
    /\ Arrive(p)
    /\ Respond(p, Begin("lookup", NoHeader, code),
               lookup_response(LinksByCode(links, code)))
    /\ UNCHANGED <<links, nextId, now, sweeper, served>>

\* ------------------------------------------------------------------ stats
\* if not link or link.user_id != current_user.id
denied(rows, uid) == rows = {} \/ TheLink(rows).user_id # uid

stats_body(l) == <<l.original_url, l.created_at, l.click_count, l.last_used_at>>

\* a guard that answers 404 for a code nobody holds
stats_response_leaky(cred, code, L) ==
    LET auth == get_current_user(cred)
        rows == LinksByCode(L, code)
    IN IF auth.err # NoResponse THEN auth.err
       ELSE IF rows = {} THEN Response(404, "Short URL not found", <<>>)
       ELSE IF denied(rows, auth.uid) THEN Response(403, "Access denied", <<>>)
       ELSE Response(200, "", stats_body(TheLink(rows)))

\* the response of GET /links/{code}/stats for a store L
stats_response(cred, code, L) ==
    LET auth == get_current_user(cred)
        rows == LinksByCode(L, code)
    IN IF auth.err # NoResponse THEN auth.err
       ELSE IF denied(rows, auth.uid) THEN Response(403, "Access denied", <<>>)
       ELSE Response(200, "", stats_body(TheLink(rows)))

get_link_stats(p, cred, code) ==
    /\ Arrive(p)
    /\ Respond(p, Begin("stats", cred, code), stats_response(cred, code, links))
    /\ UNCHANGED <<links, nextId, now, sweeper, served>>

\* --------------------------------------------------------------- my links
get_my_links(p, cred) ==
    /\ Arrive(p)
    /\ LET auth == get_current_user(cred)
           mine == {l \in links : l.user_id = auth.uid}
       IN IF auth.err # NoResponse
          THEN Respond(p, Begin("list", cred, ""), auth.err)
          ELSE Respond(p, Begin("list", cred, ""),
                       Response(200, "",
                           {<<l.short_code, l.original_url, l.click_count>> : l \in mine}))
    /\ UNCHANGED <<links, nextId, now, sweeper, served>>

\* ----------------------------------------------------------------- delete
\* the first step of DELETE /links/{code} for a store L: a response, or
\* NoResponse when the handler goes on to its commit
delete_response(cred, code, L) ==
    LET auth == get_current_user(cred)
        rows == LinksByCode(L, code)
    IN IF auth.err # NoResponse THEN auth.err
       ELSE IF denied(rows, auth.uid) THEN Response(403, "Access denied", <<>>)
       ELSE NoResponse

\* a handler that deletes before it checks the owner
delete_short_link_read_deleting_first(p, cred, code) ==
    /\ Arrive(p)
    /\ LET r == Begin("delete", cred, code)
           auth == get_current_user(cred)
           resp == delete_response(cred, code, links)
       IN /\ links' = IF auth.err # NoResponse THEN links
                      ELSE links \ LinksByCode(links, code)
          /\ Respond(p, r, IF resp # NoResponse THEN resp
                           ELSE Response(200, "deleted", <<code>>))
    /\ UNCHANGED <<nextId, now, sweeper, served>>

delete_short_link_read(p, cred, code) ==
    /\ Arrive(p)
    /\ LET r == Begin("delete", cred, code)
           resp == delete_response(cred, code, links)
       IN IF resp # NoResponse
          THEN Respond(p, r, resp)
          ELSE /\ reqs' = [reqs EXCEPT ![p] =
                             [r EXCEPT !.pc = "commit",
                                       !.id = TheLink(LinksByCode(links, code)).id]]
               /\ out' = NoEvent
    /\ UNCHANGED <<links, nextId, now, sweeper, served>>

\* DELETE ... WHERE id = :id; a row already gone is a warning, not an error
delete_short_link_commit(p) ==
    /\ InFlight(p, "delete", {"commit"})
    /\ links' = links \ LinksById(links, reqs[p].id)
    /\ Respond(p, reqs[p], Response(200, "deleted", <<reqs[p].code>>))
    /\ UNCHANGED <<nextId, now, sweeper, served, nreq>>

\* ----------------------------------------------------------------- update
update_response(cred, code, L) ==
    LET auth == get_current_user(cred)
        rows == LinksByCode(L, code)
    IN IF auth.err # NoResponse THEN auth.err
       ELSE IF denied(rows, auth.uid) THEN Response(403, "Access denied", <<>>)
       ELSE NoResponse

update_short_link_read(p, cred, code, new_original_url) ==
    /\ Arrive(p)
    /\ LET r == Begin("update", cred, code)
           resp == update_response(cred, code, links)
           link == TheLink(LinksByCode(links, code))
       IN IF resp # NoResponse
          THEN Respond(p, r, resp)
          ELSE /\ reqs' = [reqs EXCEPT ![p] =
                             [r EXCEPT !.pc = "commit", !.id = link.id,
                                       !.url = new_original_url,
                                       !.dirty = (new_original_url # link.original_url)]]
               /\ out' = NoEvent
    /\ UNCHANGED <<links, nextId, now, sweeper, served>>

\* an UPDATE that writes the counter back as a fresh one
retarget_resetting(l, r) == [l EXCEPT !.original_url = r.url, !.click_count = 0]

\* link.original_url = new_original_url: the only column the UPDATE sets
retarget(l, r) == [l EXCEPT !.original_url = r.url]

\* UPDATE ... SET original_url = :url WHERE id = :id, flushed only when the
\* assignment changed the attribute
update_short_link_commit(p) ==
    /\ InFlight(p, "update", {"commit"})
    /\ LET r == reqs[p]
           rows == LinksById(links, r.id)
       IN IF ~r.dirty
          THEN /\ Respond(p, r, Response(200, "", <<r.code>>))
               /\ UNCHANGED links
          ELSE IF rows = {}
          THEN /\ Respond(p, r, ServerError)     \* StaleDataError: 0 rows matched
               /\ UNCHANGED links
          ELSE /\ links' = (links \ rows) \cup {retarget(l, r) : l \in rows}
               /\ Respond(p, r, Response(200, "", <<r.code>>))
    /\ UNCHANGED <<nextId, now, sweeper, served, nreq>>

\* ---------------------------------------------------------------- sweeper
\* the global names of module app.main that hold a number of days
ModuleGlobals == {"INACTIVITY_DAYS_LIMIT"}

\* a DELETE that takes a row never used for one used long ago
delete_where_not_used_since(L, threshold_date) ==
    {l \in L : \E t \in l.last_used_at : t >= threshold_date}

\* delete(ShortenedLink).where(ShortenedLink.last_used_at < threshold_date):
\* the rows that stay (NULL < x is not true)
delete_where_last_used_before(L, threshold_date) ==
    {l \in L : ~(\E t \in l.last_used_at : t < threshold_date)}

\* one turn of the while loop, after the sleep: the lookup of N_DAYS_INACTIVE
\* raises NameError, which nothing catches, and the task ends
cleanup_old_links_task ==
    /\ sweeper = "sleeping"
    /\ IF "N_DAYS_INACTIVE" \in ModuleGlobals
       THEN /\ links' = delete_where_last_used_before(links, now - INACTIVITY_DAYS_LIMIT)
            /\ sweeper' = "sleeping"
       ELSE /\ sweeper' = "failed"
            /\ UNCHANGED links
    /\ out' = SweepEvent
    /\ UNCHANGED <<nextId, now, reqs, served, nreq>>

\* the process (re)starts on the same database: the requests in flight are
\* gone and a new sweeper task is created
startup ==
    /\ reqs' = [p \in Procs |-> Idle]
    /\ sweeper' = "sleeping"
    /\ out' = NoEvent
    /\ UNCHANGED <<links, nextId, now, served, nreq>>

\* ------------------------------------------------------------------ time
Tick(d) ==
    /\ d > now
    /\ now' = d
    /\ out' = NoEvent
    /\ UNCHANGED <<links, nextId, reqs, sweeper, served, nreq>>

Next ==
    \/ \E p \in Procs, c \in Creators, a \in Aliases, u \in ShortenUrls, x \in Expiries,
          g \in GeneratedCodes : shorten_link_check(p, c, a, u, x, g)
    \/ \E p \in Procs : shorten_link_commit(p)
    \/ \E p \in Procs : shorten_link_refresh(p)
    \/ \E p \in Procs, k \in PathCodes : redirect_to_original_url_read(p, k)
    \/ \E p \in Procs : redirect_to_original_url_commit(p)
    \/ \E p \in Procs, k \in PathCodes : get_original_url(p, k)
    \/ \E p \in Procs, c \in Credentials, k \in PathCodes : get_link_stats(p, c, k)
    \/ \E p \in Procs, c \in Credentials : get_my_links(p, c)
    \/ \E p \in Procs, c \in Credentials, k \in PathCodes : delete_short_link_read(p, c, k)
    \/ \E p \in Procs : delete_short_link_commit(p)
    \/ \E p \in Procs, c \in Credentials, k \in PathCodes, u \in Urls :
          update_short_link_read(p, c, k, u)
    \/ \E p \in Procs : update_short_link_commit(p)
    \/ cleanup_old_links_task
    \/ startup
    \/ \E d \in Days : Tick(d)

Spec == Init /\ [][Next]_vars

\* The database outlives the process: the server started on a store in which
\* an earlier run has left one link, created by user 1 under a custom alias.
StoredLink ==
    [id |-> 1, original_url |-> "u1", short_code |-> "abcdef", created_at |-> 0,
     expires_at |-> None, click_count |-> 0, last_used_at |-> None,
     user_id |-> Some(1)]

InitStored ==
    /\ links = {StoredLink}
    /\ nextId = StoredLink.id + 1
    /\ now = 0
    /\ reqs = [p \in Procs |-> Idle]
    /\ sweeper = "sleeping"
    /\ out = NoEvent
    /\ served = [i \in 1..(MaxReqs + 1) |-> 0]
    /\ nreq = 0

SpecStored == InitStored /\ [][Next]_vars

\* ======================================================================
\* Claims
\* ======================================================================

\* the second of two rival shorten requests has just been answered
BothRivalsAnswered == out.op = "shorten" /\ out.rival /\ out.rivalStatus # 0

\* C1: of two shorten requests that name the same custom alias and are in
\* flight together, exactly one creates the link (200) and the other one is
\* answered 400 "Alias is already taken".
C1_ConcurrentSameAlias ==
    BothRivalsAnswered => {out.resp.status, out.rivalStatus} = {200, 400}

\* C2: no two rows of shortened_links hold the same short_code.
C2_ShortCodeUnique ==
    \A l1 \in links, l2 \in links : l1.short_code = l2.short_code => l1 = l2

\* an INSERT has just been refused for a code that a stored link holds
C2_Witness ==
    /\ out.op = "shorten" /\ out.pc = "commit" /\ out.resp.status = 500
    /\ LinksByCode(links, out.code) # {}

\* C3: a stored link's click_count is the number of redirects answered for it.
C3_ClickCountCountsResolutions ==
    \A l \in links : l.click_count = served[l.id]

\* this step receives GET /{k}
RedirectArrives(k) ==
    /\ nreq' = nreq + 1
    /\ \/ out'.op = "redirect" /\ out'.pc = "idle" /\ out'.code = k
       \/ \E p \in Procs : reqs[p].op = "idle" /\ reqs'[p].op = "redirect"
                           /\ reqs'[p].code = k

\* C4: resolving a code whose link is stored with expires_at earlier than now
\* is answered 410, and the step leaves every stored link as it was.
C4_ExpiredIsRefused ==
    [][\A k \in PathCodes :
         (RedirectArrives(k)
            /\ \E l \in links : l.short_code = k /\ \E e \in l.expires_at : e < now)
         => (out'.op = "redirect" /\ out'.resp.status = 410 /\ links' = links)]_vars

\* a used link has expired and a visitor has just been refused
C4_Witness ==
    /\ out.op = "redirect" /\ out.resp.status = 410
    /\ \E l \in links : /\ l.short_code = out.code
                        /\ l.click_count = 1 /\ l.last_used_at = Some(0)
                        /\ \E e \in l.expires_at : e < now

\* C5: resolving a code that no stored link holds is answered 404, and 410 is
\* only ever the answer for a code whose link was stored at the lookup.
C5_AbsentIsNotFound ==
    [][\A k \in PathCodes :
         RedirectArrives(k)
         => /\ LinksByCode(links, k) = {}
                 => (out'.op = "redirect" /\ out'.resp.status = 404)
            /\ out'.resp.status = 410 => LinksByCode(links, k) # {}]_vars

\* a visitor has just been told that a code does not exist, next to an expired link
C5_Witness ==
    /\ out.op = "redirect" /\ out.resp.status = 404
    /\ LinksByCode(links, out.code) = {}
    /\ \E l \in links : \E e \in l.expires_at : e < now

\* the principal a credential stands for
Principal(cred) == IF cred.kind = "token" THEN Some(cred.sub) ELSE None

NotOwner(cred, l) == Principal(cred) = None \/ l.user_id # Principal(cred)

\* C6: to a caller who does not own the code, stats, update and delete answer
\* the same in the store where the link exists (owned by someone else or by
\* nobody) and in the store without it.
C6_DenialHidesExistence ==
    \A c \in Credentials, k \in PathCodes :
        LET rows == LinksByCode(links, k)
        IN (rows # {} /\ \A l \in rows : NotOwner(c, l))
           => /\ stats_response(c, k, links) = stats_response(c, k, links \ rows)
              /\ delete_response(c, k, links) = delete_response(c, k, links \ rows)
              /\ update_response(c, k, links) = update_response(c, k, links \ rows)
              /\ stats_response(c, k, links) # NoResponse
              /\ delete_response(c, k, links) # NoResponse
              /\ update_response(c, k, links) # NoResponse

\* user 2 has just been denied on a link of user 1
C6_Witness ==
    /\ out.op \in {"stats", "update", "delete"} /\ out.resp.status = 403
    /\ out.cred = Token(2)
    /\ \E l \in links : l.short_code = out.code /\ l.user_id = Some(1)

Authorized(cred, code, L) ==
    \E l \in L : /\ l.short_code = code
                 /\ Principal(cred) # None /\ l.user_id = Principal(cred)

\* C7: stats, update and delete go through only for the owner of a stored
\* link; every other request is denied with an authorization error (401 or
\* 403), and no request in flight holds a link its caller does not own.
C7_OnlyOwnerTakesEffect ==
    /\ (out.op \in {"stats", "update", "delete"} /\ out.pc = "idle"
          /\ ~Authorized(out.cred, out.code, links))
       => out.resp.status \in {401, 403}
    /\ (out.op = "stats" /\ out.resp.status = 200)
       => Authorized(out.cred, out.code, links)
    /\ \A p \in Procs :
         reqs[p].op \in {"update", "delete"}
         => /\ Principal(reqs[p].cred) # None
            /\ \A l \in LinksById(links, reqs[p].id) :
                 l.user_id = Principal(reqs[p].cred)

\* C8: a turn of the sweeper deletes exactly the links last used before
\* now - 7 days and keeps the others.
C8_SweepDeletesInactive ==
    [][out'.op = "sweep"
         => links' = {l \in links :
                        \A t \in l.last_used_at : t >= now - INACTIVITY_DAYS_LIMIT}]_vars

\* C9: after a turn of the sweeper, failed or not, the task is still running.
C9_SweeperSurvivesFailure ==
    out.op = "sweep" => sweeper = "sleeping"

\* C11: a shorten request that supplies no custom alias is never answered
\* 400 "Alias is already taken": when its generated code is in use it draws
\* another one.
C11_GeneratedCodeIsRetried ==
    (out.op = "shorten" /\ out.alias = None) => out.resp.status # 400

\* the stored link of the same primary key before and after a step
SameLink(l, m) == l \in links /\ m \in links' /\ l.id = m.id

\* C12: a step changes click_count or last_used_at of a stored link only when
\* it is the commit of a redirect of that link, answered 307; every other
\* step, the commit of an update of the same link included, leaves both as
\* they were.
C12_OnlyRedirectTouchesCounters ==
    [][\A l \in links, m \in links' :
         (SameLink(l, m)
            /\ (m.click_count # l.click_count \/ m.last_used_at # l.last_used_at))
         => (out'.op = "redirect" /\ out'.resp.status = 307 /\ out'.id = l.id)]_vars

\* a redirect of a link has just committed while an update of that link is
\* between its SELECT and its commit
C12_Witness ==
    /\ out.op = "redirect" /\ out.resp.status = 307
    /\ \E p \in Procs : /\ InFlight(p, "update", {"commit"})
                        /\ reqs[p].id = out.id /\ reqs[p].dirty
    /\ \E l \in links : l.id = out.id /\ l.click_count = 1

\* C13: across every step that keeps a link stored, the link's click_count
\* does not decrease.
C13_ClickCountMonotonic ==
    [][\A l \in links, m \in links' :
         SameLink(l, m) => m.click_count >= l.click_count]_vars

\* C14: across every step that keeps a link stored, the link's last_used_at,
\* once set, stays set and does not move to an earlier time.
C14_LastUsedMonotonic ==
    [][\A l \in links, m \in links' :
         SameLink(l, m)
         => \A a \in l.last_used_at : \E b \in m.last_used_at : b >= a]_vars

\* C15: a stored link keeps its primary key, short_code, created_at and
\* owner for as long as it is stored: a row enters the table only at the commit
\* of a shorten and leaves it only at a delete, the commit of an update
\* changes original_url and nothing else, and the commit of a redirect changes
\* click_count and last_used_at and nothing else.
C15_IdentityIsImmutable ==
    [][/\ \A l \in links, m \in links' :
            SameLink(l, m)
            => /\ m.short_code = l.short_code
               /\ m.created_at = l.created_at
               /\ m.user_id = l.user_id
               /\ out'.op = "update" => m = [l EXCEPT !.original_url = m.original_url]
               /\ out'.op = "redirect"
                    => m = [l EXCEPT !.click_count = m.click_count,
                                     !.last_used_at = m.last_used_at]
       /\ \A l \in links : LinksById(links', l.id) = {} => out'.op = "delete"
       /\ \A m \in links' :
            LinksById(links, m.id) = {}
            => \E p \in Procs : /\ InFlight(p, "shorten", {"commit"})
                                /\ reqs'[p].pc = "refresh" /\ reqs'[p].id = m.id]_vars

\* a link of user 1, created on day 0, was given another destination and has
\* just been resolved on a later day
C15_Witness ==
    /\ out.op = "redirect" /\ out.resp.status = 307
    /\ \E l \in links : /\ l.id = out.id /\ l.short_code = "abcdef"
                        /\ l.user_id = Some(1) /\ l.created_at = 0
                        /\ l.original_url = "u2"
                        /\ l.click_count = 1 /\ l.last_used_at = Some(8)

\* C16: a request answered with a validation or ownership error (400, 401,
\* 403) is answered at its first step, and that step leaves the table
\* shortened_links exactly as it was.
C16_RejectionChangesNothing ==
    [][out'.resp.status \in {400, 401, 403}
         => (links' = links /\ out'.pc = "idle")]_vars

\* user 2 has just been refused the deletion of a link of user 1 that has
\* been resolved once
C16_Witness ==
    /\ out.op = "delete" /\ out.resp.status = 403 /\ out.cred = Token(2)
    /\ \E l \in links : /\ l.short_code = out.code /\ l.user_id = Some(1)
                        /\ l.click_count = 1 /\ l.last_used_at = Some(0)

\* C17: the link a shorten has inserted is stored with its caller as owner
\* and, for a custom alias, under that alias; a link not yet resolved has
\* click_count 0 and no last_used_at; the owner's stats request answers 200
\* with the stored click_count, which is 0 before the first redirect and 1
\* after exactly one.
C17_OwnedLinkCountsFromZero ==
    /\ \A p \in Procs :
         InFlight(p, "shorten", {"refresh"})
         => \A l \in LinksById(links, reqs[p].id) :
              /\ l.user_id = Principal(reqs[p].cred)
              /\ l.short_code = reqs[p].code
              /\ reqs[p].alias \notin {None, Some("")}
                   => reqs[p].alias = Some(l.short_code)
    /\ \A l \in links :
         served[l.id] = 0 => (l.click_count = 0 /\ l.last_used_at = None)
    /\ (out.op = "stats" /\ Authorized(out.cred, out.code, links))
       => /\ out.resp.status = 200
          /\ \A l \in LinksByCode(links, out.code) :
               /\ out.resp.body[3] = l.click_count
               /\ served[l.id] \in {0, 1} => out.resp.body[3] = served[l.id]

\* user 1 has just read the stats of the link they created under the alias,
\* after one redirect
C17_Witness ==
    /\ out.op = "stats" /\ out.cred = Token(1) /\ out.code = "abcdef"
    /\ out.resp.status = 200 /\ out.resp.body[3] = 1
    /\ \E l \in links : /\ l.short_code = "abcdef" /\ l.user_id = Some(1)
                        /\ served[l.id] = 1

\* C18: a shorten request that supplies custom_alias, the empty string
\* included, and is answered 200 has created its link under that alias.
C18_AliasIsVerbatim ==
    (out.op = "shorten" /\ out.resp.status = 200 /\ out.alias # None)
    => out.alias = Some(out.code)

\* C19: a link whose last_used_at is unset is not matched by the sweeper's
\* DELETE, stays stored through every turn of the sweeper, and leaves the
\* table only at the commit of a delete by its owner; a link without owner
\* never leaves it.
C19_SweeperKeepsUnused ==
    [][\A l \in links :
         l.last_used_at = None
         => /\ l \in delete_where_last_used_before(links, now - INACTIVITY_DAYS_LIMIT)
            /\ out'.op = "sweep" => l \in links'
            /\ LinksById(links', l.id) = {}
                 => /\ out'.op = "delete" /\ out'.resp.status = 200
                    /\ out'.id = l.id
                    /\ l.user_id # None /\ Principal(out'.cred) = l.user_id]_vars

\* the sweeper has just had its turn over an anonymous link that was never
\* resolved and is older than the limit
C19_Witness ==
    /\ out.op = "sweep"
    /\ \E l \in links : /\ l.last_used_at = None /\ l.user_id = None
                        /\ l.created_at < now - INACTIVITY_DAYS_LIMIT

\* C20: GET /links/{code} answers 200 with the stored original_url for every
\* stored code, whatever its expires_at, answers 404 for a code that is not
\* stored, and leaves the table as it was.
C20_LookupIgnoresExpiry ==
    [][out'.op = "lookup"
         => LET rows == LinksByCode(links, out'.code)
            IN /\ links' = links
               /\ rows = {} => out'.resp = Response(404, "Short URL not found", <<>>)
               /\ \A l \in rows : out'.resp = Response(200, "", <<l.original_url>>)]_vars

\* the destination of an expired link has just been looked up
C20_Witness ==
    /\ out.op = "lookup" /\ out.resp.status = 200
    /\ \E l \in links : /\ l.short_code = out.code
                        /\ out.resp.body = <<l.original_url>>
                        /\ \E e \in l.expires_at : e < now

====
